---------------------------- MODULE Spec2Model ----------------------------
(***************************************************************************)
(* A model of AnimeTracker.py: the Anime record type (construction,        *)
(* to_dict, from_dict) and the AnimeTracker repository (load, save,        *)
(* add_anime, delete_by_title, search, recommend) over one durable JSON    *)
(* file.                                                                   *)
(*                                                                         *)
(* Text is a sequence of characters (one-character strings), so that       *)
(* strip(), lower(), isdigit(), int() and the substring test are computed  *)
(* and not assumed.  A Python value is a record [t, n, s]: t its type      *)
(* ("none", "int", "str", "bool", "float"), n its number (an int, a bool   *)
(* as 0/1, a float in tenths) and s its text.                              *)
(***************************************************************************)
EXTENDS Integers, Sequences, FiniteSets, TLC

VARIABLES
    animes,        \* self.animes: the Store, a sequence of Anime records
    file,          \* the durable file self.filename: [kind, data]
    writable,      \* whether open(self.filename, "w") succeeds in this session
    pc,            \* "new" before AnimeTracker.__init__ ran load(), then "ready" or "failed"
    last,          \* the last call: its name, argument, return value, message boxes, pre-state
    found,         \* the list a caller still holds from its last search()
    foundIsStore,  \* whether that list is the very list object self.animes
    made,          \* the last Anime(...) / Anime.from_dict(...) call and its outcome
    onlyAdds       \* history: the Store was built from empty by add_anime calls alone

vars == <<animes, file, writable, pc, last, found, foundIsStore, made, onlyAdds>>

---------------------------------------------------------------------------
(* Bounds of the model.                                                    *)

\* the longest Store add_anime is let to build in Spec
MaxAnimes == 2
\* the longest Store add_anime is let to build in SpecRecommend
MaxQueryAnimes == 3
\* the longest Store add_anime is let to build in SpecSearch
MaxSearchAnimes == 3
\* integer inputs of Anime(...) range over -MaxIn .. MaxIn
MaxIn == 6
\* recommend(top_n) is called with top_n in 1 .. MaxTopN
MaxTopN == 3

---------------------------------------------------------------------------
(* Python text.                                                            *)

UpperChars == <<"A", "B", "C", "D", "E", "F", "G", "H", "I", "J", "K", "L", "M",
                "N", "O", "P", "Q", "R", "S", "T", "U", "V", "W", "X", "Y", "Z">>
LowerChars == <<"a", "b", "c", "d", "e", "f", "g", "h", "i", "j", "k", "l", "m",
                "n", "o", "p", "q", "r", "s", "t", "u", "v", "w", "x", "y", "z">>
DigitChars == <<"0", "1", "2", "3", "4", "5", "6", "7", "8", "9">>

\* U+00B2 SUPERSCRIPT TWO: str.isdigit() accepts it, int() does not
Sup2 == "sup2"

IsSpace(c) == c \in {" ", "\t", "\n"}

\* str.lower() on one character
LowerChar(c) ==
    IF \E i \in 1..Len(UpperChars) : UpperChars[i] = c
    THEN LowerChars[CHOOSE i \in 1..Len(UpperChars) : UpperChars[i] = c]
    ELSE c

\* str.lower()
lower(s) == [i \in 1..Len(s) |-> LowerChar(s[i])]

\* str.strip(): drop leading and trailing whitespace
strip(s) ==
    IF \A i \in 1..Len(s) : IsSpace(s[i])
    THEN << >>
    ELSE LET lo == CHOOSE i \in 1..Len(s) :
                       ~IsSpace(s[i]) /\ \A j \in 1..(i - 1) : IsSpace(s[j])
             hi == CHOOSE i \in 1..Len(s) :
                       ~IsSpace(s[i]) /\ \A j \in (i + 1)..Len(s) : IsSpace(s[j])
         IN  SubSeq(s, lo, hi)

\* str.isdigit(): non-empty, every character a digit character
isdigit(s) ==
    /\ Len(s) > 0
    /\ \A i \in 1..Len(s) :
           \/ \E d \in 1..Len(DigitChars) : DigitChars[d] = s[i]
           \/ s[i] = Sup2

\* the `in` operator on text: kw is a substring of s
contains(s, kw) ==
    \E i \in 1..(Len(s) - Len(kw) + 1) : SubSeq(s, i, i + Len(kw) - 1) = kw

IsAsciiDigit(c) == \E d \in 1..Len(DigitChars) : DigitChars[d] = c

DigitVal(c) == (CHOOSE d \in 1..Len(DigitChars) : DigitChars[d] = c) - 1

RECURSIVE DigitsVal(_)
DigitsVal(s) ==
    IF Len(s) = 0 THEN 0
    ELSE 10 * DigitsVal(SubSeq(s, 1, Len(s) - 1)) + DigitVal(s[Len(s)])

RECURSIVE NatToStr(_)
NatToStr(n) ==
    IF n < 10 THEN <<DigitChars[n + 1]>>
    ELSE NatToStr(n \div 10) \o <<DigitChars[(n % 10) + 1]>>

IntToStr(n) == IF n < 0 THEN <<"-">> \o NatToStr(-n) ELSE NatToStr(n)

---------------------------------------------------------------------------
(* Python values.                                                          *)

PyNone     == [t |-> "none", n |-> 0, s |-> << >>]
PyInt(k)   == [t |-> "int", n |-> k, s |-> << >>]
PyStr(x)   == [t |-> "str", n |-> 0, s |-> x]
PyBool(b)  == [t |-> "bool", n |-> IF b THEN 1 ELSE 0, s |-> << >>]
\* a float, held in tenths: PyFloat(5) is 0.5
PyFloat(k) == [t |-> "float", n |-> k, s |-> << >>]

\* bool(v), as `if v` and `v or []` take it
truthy(v) ==
    CASE v.t = "none" -> FALSE
      [] v.t = "str"  -> Len(v.s) > 0
      [] OTHER        -> v.n # 0

\* towards zero, as int(float) rounds
Trunc10(k) == IF k >= 0 THEN k \div 10 ELSE -((-k) \div 10)

\* int(text): surrounding whitespace and one sign are allowed, then ASCII digits
\* (digit separators and non-ASCII decimal digits are not among the inputs)
ParseInt(s) ==
    LET t    == strip(s)
        neg  == Len(t) > 0 /\ t[1] = "-"
        sgn  == Len(t) > 0 /\ t[1] \in {"-", "+"}
        body == IF sgn THEN SubSeq(t, 2, Len(t)) ELSE t
    IN  IF Len(body) > 0 /\ \A i \in 1..Len(body) : IsAsciiDigit(body[i])
        THEN [exc |-> "", n |-> IF neg THEN -DigitsVal(body) ELSE DigitsVal(body)]
        ELSE [exc |-> "ValueError", n |-> 0]

\* int(v)
py_int(v) ==
    CASE v.t = "none"  -> [exc |-> "TypeError", n |-> 0]
      [] v.t = "str"   -> ParseInt(v.s)
      [] v.t = "float" -> [exc |-> "", n |-> Trunc10(v.n)]
      [] OTHER         -> [exc |-> "", n |-> v.n]

\* str(v)
py_str(v) ==
    CASE v.t = "none"  -> <<"N", "o", "n", "e">>
      [] v.t = "str"   -> v.s
      [] v.t = "bool"  -> IF v.n = 1 THEN <<"T", "r", "u", "e">>
                                     ELSE <<"F", "a", "l", "s", "e">>
      [] v.t = "float" -> (IF v.n < 0 THEN <<"-">> ELSE << >>)
                          \o NatToStr((IF v.n < 0 THEN -v.n ELSE v.n) \div 10)
                          \o <<".">>
                          \o NatToStr((IF v.n < 0 THEN -v.n ELSE v.n) % 10)
      [] OTHER         -> IntToStr(v.n)

---------------------------------------------------------------------------
(* class Anime.                                                            *)

Planned == <<"p", "l", "a", "n", "n", "e", "d">>
Unknown == <<"U", "n", "k", "n", "o", "w", "n">>

NoRecord == [title |-> << >>, year |-> PyNone, genres |-> << >>,
             status |-> << >>, rating |-> PyNone]

\* self.title = title.strip()
InitTitle(title) ==
    IF title.t = "str"
    THEN [exc |-> "", v |-> strip(title.s)]
    ELSE [exc |-> "AttributeError", v |-> << >>]

\* self.year = int(year) if year else None
InitYear(year) ==
    IF truthy(year)
    THEN LET i == py_int(year)
         IN  [exc |-> i.exc, v |-> IF i.exc = "" THEN PyInt(i.n) ELSE PyNone]
    ELSE [exc |-> "", v |-> PyNone]

\* self.genres = [g.strip() for g in (genres or []) if g.strip()]
InitGenres(genres) ==
    SelectSeq([i \in 1..Len(genres) |-> strip(genres[i])], LAMBDA g : Len(g) > 0)

\* self.status = status.strip().lower() if status else "planned"
InitStatus(status) ==
    IF truthy(status)
    THEN IF status.t = "str"
         THEN [exc |-> "", v |-> lower(strip(status.s))]
         ELSE [exc |-> "AttributeError", v |-> << >>]
    ELSE [exc |-> "", v |-> Planned]

\* a faulty variant of InitRating: the range test 0 <= int(rating) <= 5 is left out
InitRatingNoRange(rating) ==
    IF isdigit(py_str(rating))
    THEN LET i == py_int(rating)
         IN  [exc |-> i.exc, v |-> IF i.exc = "" THEN PyInt(i.n) ELSE PyNone]
    ELSE [exc |-> "", v |-> PyNone]

\* self.rating = int(rating) if (str(rating).isdigit()) and 0 <= int(rating) <= 5 else None
InitRating(rating) ==
    IF isdigit(py_str(rating))
    THEN LET i == py_int(rating)
         IN  IF i.exc # ""
             THEN [exc |-> i.exc, v |-> PyNone]
             ELSE [exc |-> "", v |-> IF 0 <= i.n /\ i.n <= 5 THEN PyInt(i.n) ELSE PyNone]
    ELSE [exc |-> "", v |-> PyNone]

\* Anime.__init__: the fields are set in this order, the first exception ends it
Anime(title, year, genres, status, rating) ==
    LET ti == InitTitle(title)
        ye == InitYear(year)
        st == InitStatus(status)
        ra == InitRating(rating)
        exc == CASE ti.exc # "" -> ti.exc
                 [] ye.exc # "" -> ye.exc
                 [] st.exc # "" -> st.exc
                 [] OTHER       -> ra.exc
    IN  IF exc # ""
        THEN [exc |-> exc, r |-> NoRecord]
        ELSE [exc |-> "",
              r   |-> [title |-> ti.v, year |-> ye.v, genres |-> InitGenres(genres),
                       status |-> st.v, rating |-> ra.v]]

Keys == {"title", "year", "genres", "status", "rating"}

\* Anime.to_dict
to_dict(a) ==
    [keys |-> Keys, title |-> PyStr(a.title), year |-> a.year, genres |-> a.genres,
     status |-> PyStr(a.status), rating |-> a.rating]

\* dict.get(key, default)
Get(d, key, default) == IF key \in d.keys THEN d[key] ELSE default

\* Anime.from_dict
from_dict(d) ==
    Anime(Get(d, "title", PyStr(<< >>)),
          Get(d, "year", PyStr(Unknown)),
          Get(d, "genres", << >>),
          Get(d, "status", PyStr(Planned)),
          Get(d, "rating", PyNone))

---------------------------------------------------------------------------
(* class AnimeTracker: the durable file.                                   *)
(* file.kind is "absent" (os.path.exists is false), "unreadable" (open()   *)
(* raises OSError), "undecodable" (the bytes are not UTF-8), "badjson"     *)
(* (the text is not JSON), "scalar" (JSON, but a number and no array) or   *)
(* "array"; file.data is then the array json.load returns, a sequence of   *)
(* dicts.  json.dump and json.load carry None, int and str values over     *)
(* unchanged, and a record holds no other.                                 *)

MsgCorrupted == "Data file corrupted, reset to empty."
MsgSaveFailed == "Failed to save data file."
MsgExists == "Anime already exists."
MsgNotFound == "Anime not found."

FileOf(kind, data) == [kind |-> kind, data |-> data]

\* a faulty variant of dump: the rating is not written
dumpNoRating(store) ==
    [i \in 1..Len(store) |-> [to_dict(store[i]) EXCEPT !.rating = PyNone]]

\* [a.to_dict() for a in self.animes]
dump(store) == [i \in 1..Len(store) |-> to_dict(store[i])]

\* save(): the file after it; open(.., "w") raising OSError leaves the file as it was
save_file(store) == IF writable THEN FileOf("array", dump(store)) ELSE file

\* save(): the message boxes it shows
save_msgs == IF writable THEN {} ELSE {MsgSaveFailed}

\* Anime.from_dict(x) for x in data: the outcome of each call
each_from_dict(data) == [i \in 1..Len(data) |-> from_dict(data[i])]

\* the exception of the first call that raises one, "" if none does
first_exc(cs) ==
    IF \E i \in 1..Len(cs) : cs[i].exc # ""
    THEN cs[CHOOSE i \in 1..Len(cs) :
                /\ cs[i].exc # ""
                /\ \A j \in 1..(i - 1) : cs[j].exc = ""].exc
    ELSE ""

\* the list of the records made, unless a call raised
list_or_exc(cs) ==
    [exc  |-> first_exc(cs),
     list |-> IF first_exc(cs) = "" THEN [i \in 1..Len(cs) |-> cs[i].r] ELSE << >>]

\* [Anime.from_dict(x) for x in data]: the list, or the first exception raised
from_dicts(data) == list_or_exc(each_from_dict(data))

\* open() and json.load() of load(): the exception raised, if any
read_exc(f) ==
    CASE f.kind = "unreadable"  -> "OSError"
      [] f.kind = "undecodable" -> "UnicodeDecodeError"
      [] f.kind = "badjson"     -> "JSONDecodeError"
      [] OTHER                  -> "TypeError"

\* the try block of load(): the exception raised, or the list for self.animes
read(f) ==
    IF f.kind = "array"
    THEN from_dicts(f.data)
    ELSE [exc |-> read_exc(f), list |-> << >>]

\* except (OSError, json.JSONDecodeError)
Caught(exc) == exc \in {"OSError", "JSONDecodeError"}

\* the record of a call: what it was given, what it returned and showed, the Store
\* and file it started from, and whether the call before it was an add that succeeded
Call(op, arg, ret, saved, msgs, recs) ==
    [op |-> op, arg |-> arg, ret |-> ret, saved |-> saved, msgs |-> msgs,
     recs |-> recs, pre |-> animes, preFile |-> file,
     afterAdd |-> (last.op = "add" /\ last.ret = "true")]

TitleArg(title) == [NoRecord EXCEPT !.title = title]

\* load() once the file was looked at: rd is what reading it gave
load_from(rd) ==
    /\ pc \in {"new", "ready"}
    /\ UNCHANGED <<writable, found, made>>
    /\ IF file.kind = "absent"
       THEN /\ animes' = << >>
            /\ file' = save_file(<< >>)
            /\ last' = Call("load", NoRecord, "none", TRUE, save_msgs, << >>)
            /\ pc' = "ready"
            /\ foundIsStore' = FALSE
            /\ onlyAdds' = TRUE
       ELSE IF rd.exc = ""
       THEN /\ animes' = rd.list
            /\ file' = file
            /\ last' = Call("load", NoRecord, "none", FALSE, {}, << >>)
            /\ pc' = "ready"
            /\ foundIsStore' = FALSE
            /\ onlyAdds' = (rd.list = << >>)
       ELSE IF Caught(rd.exc)
       THEN /\ animes' = << >>
            /\ file' = save_file(<< >>)
            /\ last' = Call("load", NoRecord, "none", TRUE,
                            {MsgCorrupted} \cup save_msgs, << >>)
            /\ pc' = "ready"
            /\ foundIsStore' = FALSE
            /\ onlyAdds' = TRUE
       ELSE /\ last' = Call("load", NoRecord, "raised", FALSE, {}, << >>)
            /\ pc' = IF pc = "new" THEN "failed" ELSE pc
            /\ UNCHANGED <<animes, file, foundIsStore, onlyAdds>>

\* AnimeTracker.load, also the last statement of AnimeTracker.__init__
load == load_from(read(file))

\* AnimeTracker.save, called on its own
save ==
    /\ pc = "ready"
    /\ file' = save_file(animes)
    /\ last' = Call("save", NoRecord, "none", TRUE, save_msgs, << >>)
    /\ UNCHANGED <<animes, writable, pc, found, foundIsStore, made, onlyAdds>>

\* a faulty variant of has_title: the titles are compared as they are
has_title_cased(store, title) ==
    \E i \in 1..Len(store) : store[i].title = title

\* any(a.title.lower() == anime.title.lower() for a in self.animes)
has_title(store, title) ==
    \E i \in 1..Len(store) : lower(store[i].title) = lower(title)

\* AnimeTracker.add_anime
add_anime(anime) ==
    /\ pc = "ready"
    /\ UNCHANGED <<writable, pc, made>>
    /\ IF has_title(animes, anime.title)
       THEN /\ last' = Call("add", anime, "false", FALSE, {MsgExists}, << >>)
            /\ UNCHANGED <<animes, file, found, foundIsStore, onlyAdds>>
       ELSE /\ animes' = Append(animes, anime)
            /\ file' = save_file(animes')
            /\ last' = Call("add", anime, "true", TRUE, save_msgs, << >>)
            \* list.append changes the list object in place
            /\ found' = IF foundIsStore THEN animes' ELSE found
            /\ UNCHANGED <<foundIsStore, onlyAdds>>

\* a faulty variant of others: the titles are compared as they are
others_cased(store, title) ==
    SelectSeq(store, LAMBDA a : a.title # title)

\* [a for a in self.animes if a.title.lower() != title.lower()]
others(store, title) ==
    SelectSeq(store, LAMBDA a : lower(a.title) # lower(title))

\* AnimeTracker.delete_by_title
delete_by_title(title) ==
    /\ pc = "ready"
    /\ UNCHANGED <<writable, pc, made, found>>
    \* self.animes is bound to a new list: a list held from before is not the Store's
    /\ foundIsStore' = FALSE
    /\ animes' = others(animes, title)
    /\ IF Len(animes') < Len(animes)
       THEN /\ file' = save_file(animes')
            /\ last' = Call("delete", TitleArg(title), "true", TRUE, save_msgs, << >>)
            /\ onlyAdds' = FALSE
       ELSE /\ last' = Call("delete", TitleArg(title), "false", FALSE, {MsgNotFound}, << >>)
            /\ UNCHANGED <<file, onlyAdds>>

---------------------------------------------------------------------------
(* class AnimeTracker: search and recommend.                               *)

\* a faulty variant of matches: the genres are not looked at
matches_title_only(a, kw) == contains(lower(a.title), kw)

\* kw in a.title.lower() or any(kw in g.lower() for g in a.genres)
matches(a, kw) ==
    \/ contains(lower(a.title), kw)
    \/ \E i \in 1..Len(a.genres) : contains(lower(a.genres[i]), kw)

\* AnimeTracker.search: the list returned, and whether it is the list object
\* self.animes itself (it never is: list.copy(), or a list built afresh)
search(store, kw) ==
    LET k == lower(strip(kw))
    IN  IF Len(k) = 0
        THEN [items |-> store, same |-> FALSE]
        ELSE [items |-> SelectSeq(store, LAMBDA a : matches(a, k)), same |-> FALSE]

CATALOG ==
    << [genre  |-> <<"A", "c", "t", "i", "o", "n">>,
        titles |-> << <<"A", "t", "t", "a", "c", "k", " ", "o", "n", " ", "T", "i", "t", "a", "n">>,
                      <<"C", "h", "a", "i", "n", "s", "a", "w", " ", "M", "a", "n">>,
                      <<"C", "y", "b", "e", "r", "p", "u", "n", "k", ":", " ", "E", "d", "g",
                        "e", "r", "u", "n", "n", "e", "r", "s">> >>],
       [genre  |-> <<"F", "a", "n", "t", "a", "s", "y">>,
        titles |-> << <<"R", "e", ":", "Z", "e", "r", "o">>,
                      <<"M", "u", "s", "h", "o", "k", "u", " ", "T", "e", "n", "s", "e", "i">>,
                      <<"F", "r", "i", "e", "r", "e", "n", ":", " ", "B", "e", "y", "o", "n",
                        "d", " ", "J", "o", "u", "r", "n", "e", "y", "'", "s", " ", "E", "n",
                        "d">> >>],
       [genre  |-> <<"S", "c", "h", "o", "o", "l">>,
        titles |-> << <<"T", "o", "o", " ", "M", "a", "n", "y", " ", "L", "o", "s", "i", "n",
                        "g", " ", "H", "e", "r", "o", "i", "n", "e", "s", "!">>,
                      <<"K", "a", "g", "u", "y", "a", "-", "s", "a", "m", "a", ":", " ", "L",
                        "o", "v", "e", " ", "i", "s", " ", "W", "a", "r">>,
                      <<"H", "o", "r", "i", "m", "i", "y", "a">> >>],
       [genre  |-> <<"B", "a", "n", "d">>,
        titles |-> << <<"K", "-", "O", "N">>,
                      <<"M", "y", "G", "O", "!", "!", "!", "!", "!">>,
                      <<"G", "i", "r", "l", "s", " ", "B", "a", "n", "d", " ", "C", "r", "y">> >>] >>

\* g in CATALOG
InCatalog(g) == \E i \in 1..Len(CATALOG) : CATALOG[i].genre = g

\* CATALOG[g]
CatalogTitles(g) == CATALOG[CHOOSE i \in 1..Len(CATALOG) : CATALOG[i].genre = g].titles

RECURSIVE Flatten(_)
Flatten(ss) == IF Len(ss) = 0 THEN << >> ELSE Head(ss) \o Flatten(Tail(ss))

\* a faulty variant of is_liked: a rating of 3 counts as liked
is_liked_from_3(a) == a.rating.t = "int" /\ a.rating.n >= 3

\* a.rating is not None and a.rating >= 4
is_liked(a) == a.rating.t = "int" /\ a.rating.n >= 4

\* what liked.update(a.genres) is given, over the loop: every genre of every liked
\* record, in the order met
liked_genres(store) ==
    LET ls == SelectSeq(store, LAMBDA a : is_liked(a))
    IN  Flatten([i \in 1..Len(ls) |-> ls[i].genres])

Count(gs, g) == Cardinality({i \in 1..Len(gs) : gs[i] = g})

\* the keys of the Counter, in the order they were first inserted
FirstSeen(gs) ==
    LET idx == SelectSeq([i \in 1..Len(gs) |-> i],
                         LAMBDA i : \A j \in 1..(i - 1) : gs[j] # gs[i])
    IN  [k \in 1..Len(idx) |-> gs[idx[k]]]

\* Counter.most_common(): by count, highest first; equal counts keep insertion order
RECURSIVE most_common(_, _)
most_common(keys, gs) ==
    IF Len(keys) = 0 THEN << >>
    ELSE LET top == CHOOSE i \in 1..Len(keys) :
                        /\ \A j \in 1..Len(keys) : Count(gs, keys[j]) <= Count(gs, keys[i])
                        /\ \A j \in 1..(i - 1) : Count(gs, keys[j]) < Count(gs, keys[i])
         IN  <<keys[top]>>
             \o most_common(SubSeq(keys, 1, top - 1) \o SubSeq(keys, top + 1, Len(keys)), gs)

\* the loop over recs: drop a title the Store has (in any case) or that was taken already
RECURSIVE unique(_, _, _)
unique(recs, existing, acc) ==
    IF Len(recs) = 0 THEN acc
    ELSE LET r == Head(recs)
             taken == \E i \in 1..Len(acc) : acc[i] = r
         IN  unique(Tail(recs), existing,
                    IF lower(r) \notin existing /\ ~taken THEN Append(acc, r) ELSE acc)

\* unique[:top_n], for top_n >= 0
Prefix(s, n) == SubSeq(s, 1, IF n < Len(s) THEN n ELSE Len(s))

\* AnimeTracker.recommend
recommend(store, top_n) ==
    LET gs  == liked_genres(store)
        fav == most_common(FirstSeen(gs), gs)
        inc == SelectSeq(fav, InCatalog)
        recs == Flatten([i \in 1..Len(inc) |-> CatalogTitles(inc[i])])
        existing == {lower(store[i].title) : i \in 1..Len(store)}
    IN  IF Len(gs) = 0 THEN << >>
        ELSE Prefix(unique(recs, existing, << >>), top_n)

\* a caller runs search(kw) and keeps the list
do_search(kw) ==
    /\ pc = "ready"
    /\ found' = search(animes, kw).items
    /\ foundIsStore' = search(animes, kw).same
    /\ last' = Call("search", TitleArg(kw), "none", FALSE, {}, << >>)
    /\ UNCHANGED <<animes, file, writable, pc, made, onlyAdds>>

\* a caller runs recommend(top_n)
do_recommend(top_n) ==
    /\ pc = "ready"
    /\ last' = Call("recommend", [NoRecord EXCEPT !.year = PyInt(top_n)], "none", FALSE, {},
                    recommend(animes, top_n))
    /\ UNCHANGED <<animes, file, writable, pc, found, foundIsStore, made, onlyAdds>>

---------------------------------------------------------------------------
(* The inputs.                                                             *)

Args(title, year, genres, status, rating) ==
    [keys |-> Keys, title |-> title, year |-> year, genres |-> genres,
     status |-> status, rating |-> rating]

Action == <<"A", "c", "t", "i", "o", "n">>
Band == <<"B", "a", "n", "d">>
School == <<"S", "c", "h", "o", "o", "l">>
Comedy == <<"C", "o", "m", "e", "d", "y">>

\* what add_anime is given in Spec: Anime(...) of each of these
StoreSamples ==
    { Args(PyStr(<<" ", "A", "b", " ">>), PyInt(2020), <<Action>>,
           PyStr(<<"W", "a", "t", "c", "h", "i", "n", "g">>), PyInt(5)),
      Args(PyStr(<<"a", "B">>), PyNone, << >>, PyNone, PyNone),
      Args(PyStr(<<"C">>), PyStr(<<"0">>), << >>, PyNone, PyStr(<<"3">>)),
      Args(PyStr(<<"D">>), PyInt(-5), << >>, PyStr(<<" ", " ">>), PyInt(7)),
      Args(PyStr(<<"E">>), PyStr(Unknown), << >>, PyNone, PyNone) }

\* what delete_by_title is given in Spec
DeleteTitles == { <<"A", "B">>, <<"C">>, <<"d">>, <<"z", "z">> }

NormalDict(title) ==
    [keys |-> Keys, title |-> PyStr(title), year |-> PyNone, genres |-> << >>,
     status |-> PyStr(Planned), rating |-> PyNone]

\* what the durable file may hold when the program starts
InitialFiles ==
    { FileOf("absent", << >>),
      FileOf("unreadable", << >>),
      FileOf("undecodable", << >>),
      FileOf("badjson", << >>),
      FileOf("scalar", << >>),
      FileOf("array", << >>),
      \* written by an earlier session
      FileOf("array", <<NormalDict(<<"A", "b">>), NormalDict(<<"C">>)>>),
      \* two entries whose titles differ in case only
      FileOf("array", <<NormalDict(<<"A", "b">>), NormalDict(<<"a", "b">>)>>),
      \* an entry written by hand: padded title, mixed-case status, rating 9
      FileOf("array", << [keys |-> Keys, title |-> PyStr(<<" ", "C", " ">>),
                          year |-> PyInt(2001), genres |-> <<Band>>,
                          status |-> PyStr(<<"C", "o", "m", "p", "l", "e", "t", "e", "d">>),
                          rating |-> PyInt(9)] >>),
      \* an entry with no "year" key
      FileOf("array", << [NormalDict(<<"A", "b">>) EXCEPT !.keys = Keys \ {"year"}] >>) }

\* what add_anime is given in SpecRecommend: Anime(...) of each of these
QuerySamples ==
    { Args(PyStr(<<"K", "-", "O", "N">>), PyNone, <<Band>>, PyNone, PyInt(5)),
      Args(PyStr(<<"m", "y", "g", "o", "!", "!", "!", "!", "!">>), PyNone, <<Band>>,
           PyNone, PyInt(4)),
      Args(PyStr(<<"G", "i", "r", "l", "s", " ", "B", "a", "n", "d", " ", "C", "r", "y">>),
           PyNone, <<School>>, PyNone, PyInt(3)),
      Args(PyStr(<<"A", "b">>), PyNone, <<Comedy>>, PyNone, PyInt(5)),
      Args(PyStr(<<"C">>), PyNone, << >>, PyNone, PyInt(5)) }

QueryDeleteTitles == { <<"k", "-", "o", "n">>, <<"C">> }

\* what add_anime is given in SpecSearch: Anime(...) of each of these
SearchSamples ==
    { Args(PyStr(<<"A", "b">>), PyNone, <<Comedy, Band>>, PyNone, PyNone),
      Args(PyStr(<<"C", "a", "n">>), PyNone, << >>, PyNone, PyNone),
      Args(PyStr(<<"D">>), PyNone, <<Comedy>>, PyNone, PyNone),
      Args(PyStr(<<"A", "N">>), PyNone, <<School>>, PyNone, PyNone) }

SearchDeleteTitles == { <<"a", "b">>, <<"c", "a", "n">> }

Keywords == { << >>, <<" ", " ">>, <<" ", "A", "n">>, <<"z", "z">> }

IntIn == {PyInt(k) : k \in (-MaxIn)..MaxIn}

TitleIn == { PyStr(<<" ", "a", "\t">>), PyStr(<< >>), PyNone }

YearIn ==
    IntIn \cup
    { PyNone, PyStr(<< >>), PyStr(<<"0">>), PyStr(<<"-", "5">>), PyStr(<<" ", "1", "2", " ">>),
      PyStr(<<"2", "0", "2", "0">>), PyStr(Unknown), PyFloat(5), PyFloat(-25),
      PyBool(TRUE), PyBool(FALSE) }

GenresIn == { << >>, << <<" ", "x", " ">>, << >>, <<" ">> >> }

StatusIn ==
    { PyNone, PyStr(<< >>), PyStr(<<" ", " ">>),
      PyStr(<<" ", "W", "a", "t", "c", "h", "i", "n", "g", " ">>), PyStr(<<"f", "o", "o">>),
      PyInt(0), PyInt(1) }

RatingIn ==
    IntIn \cup
    { PyNone, PyStr(<< >>), PyStr(<<"0">>), PyStr(<<"5">>), PyStr(<<"0", "5">>),
      PyStr(<<"7">>), PyStr(<<"-", "3">>), PyStr(<<" ", "5">>), PyStr(<<Sup2>>),
      PyStr(<<"a", "b", "c">>), PyFloat(40), PyBool(TRUE) }

\* the arguments of a direct Anime(...) call
AnimeIn ==
    { Args(t, y, g, s, r) : t \in TitleIn, y \in YearIn, g \in GenresIn, s \in StatusIn,
                            r \in RatingIn }

\* the dicts Anime.from_dict is given: any of the keys may be missing
DictIn ==
    { [Args(PyStr(<<"a">>), y, << <<"x">> >>, s, r) EXCEPT !.keys = ks] :
        y \in {PyNone, PyInt(2001), PyInt(-MaxIn), PyStr(<<"x">>)},
        s \in {PyNone, PyStr(<<"C", "o", "m", "p", "l", "e", "t", "e", "d">>)},
        r \in {PyNone, PyInt(4), PyInt(MaxIn + 3)},
        ks \in SUBSET Keys }

---------------------------------------------------------------------------
(* The specifications.                                                     *)

NoCall ==
    [op |-> "init", arg |-> NoRecord, ret |-> "none", saved |-> FALSE, msgs |-> {},
     recs |-> << >>, pre |-> << >>, preFile |-> FileOf("absent", << >>),
     afterAdd |-> FALSE]

NoMade == [op |-> "none", d |-> Args(PyNone, PyNone, << >>, PyNone, PyNone),
           out |-> [exc |-> "", r |-> NoRecord]]

\* AnimeTracker.__init__ up to, and without, its call of load()
Init ==
    /\ animes = << >>
    /\ file \in InitialFiles
    /\ writable \in BOOLEAN
    /\ pc = "new"
    /\ last = NoCall
    /\ found = << >>
    /\ foundIsStore = FALSE
    /\ made = NoMade
    /\ onlyAdds = TRUE

\* a caller builds an Anime and hands it to add_anime; an exception of Anime(...)
\* reaches the caller before add_anime is entered
Add(samples, cap) ==
    \E s \in samples :
        LET c == Anime(s.title, s.year, s.genres, s.status, s.rating)
        IN  /\ c.exc = ""
            /\ Len(animes) < cap \/ has_title(animes, c.r.title)
            /\ add_anime(c.r)

Next ==
    \/ load
    \/ save
    \/ Add(StoreSamples, MaxAnimes)
    \/ \E t \in DeleteTitles : delete_by_title(t)

Spec == Init /\ [][Next]_vars

\* the tracker of a first session: no file was there, load() made it
InitQuery ==
    /\ animes = << >>
    /\ file = FileOf("array", << >>)
    /\ writable = TRUE
    /\ pc = "ready"
    /\ last = NoCall
    /\ found = << >>
    /\ foundIsStore = FALSE
    /\ made = NoMade
    /\ onlyAdds = TRUE

NextSearch ==
    \/ Add(SearchSamples, MaxSearchAnimes)
    \/ \E t \in SearchDeleteTitles : delete_by_title(t)
    \/ \E kw \in Keywords : do_search(kw)

SpecSearch == InitQuery /\ [][NextSearch]_vars

NextRecommend ==
    \/ Add(QuerySamples, MaxQueryAnimes)
    \/ \E t \in QueryDeleteTitles : delete_by_title(t)
    \/ \E n \in 1..MaxTopN : do_recommend(n)

SpecRecommend == InitQuery /\ [][NextRecommend]_vars

\* a call of Anime(...) or Anime.from_dict(...) about to be made
InitRecord ==
    /\ animes = << >>
    /\ file = FileOf("absent", << >>)
    /\ writable = TRUE
    /\ pc = "new"
    /\ last = NoCall
    /\ found = << >>
    /\ foundIsStore = FALSE
    /\ onlyAdds = TRUE
    /\ made \in {[op |-> "call Anime", d |-> d, out |-> NoMade.out] : d \in AnimeIn}
             \cup {[op |-> "call from_dict", d |-> d, out |-> NoMade.out] : d \in DictIn}

construct ==
    /\ made.op = "call Anime"
    /\ made' = [op  |-> "Anime", d |-> made.d,
                out |-> Anime(made.d.title, made.d.year, made.d.genres, made.d.status,
                              made.d.rating)]
    /\ UNCHANGED <<animes, file, writable, pc, last, found, foundIsStore, onlyAdds>>

construct_from_dict ==
    /\ made.op = "call from_dict"
    /\ made' = [op |-> "from_dict", d |-> made.d, out |-> from_dict(made.d)]
    /\ UNCHANGED <<animes, file, writable, pc, last, found, foundIsStore, onlyAdds>>

NextRecord == construct \/ construct_from_dict

SpecRecord == InitRecord /\ [][NextRecord]_vars

---------------------------------------------------------------------------
(* The claims.                                                             *)

SaveFailed == MsgSaveFailed \in last.msgs

\* a record of the store has this title, letter case aside
TitleTaken(store, title) ==
    \E i \in 1..Len(store) : lower(store[i].title) = lower(title)

Records(store) == {store[i] : i \in 1..Len(store)}

EmptyArray == FileOf("array", << >>)

\* data is the array of the store's records, each with its five fields, in order
Serializes(data, store) ==
    /\ Len(data) = Len(store)
    /\ \A i \in 1..Len(store) :
           /\ data[i].keys = Keys
           /\ data[i].title = PyStr(store[i].title)
           /\ data[i].year = store[i].year
           /\ data[i].genres = store[i].genres
           /\ data[i].status = PyStr(store[i].status)
           /\ data[i].rating = store[i].rating

\* C1: in every state reached by load, add and deleteByTitle from any file content
\* (every write succeeding), no two records of the Store have titles that are equal when letter case is ignored.
C1_UniqueTitles ==
    writable =>
        \A i, j \in 1..Len(animes) :
            i # j => lower(animes[i].title) # lower(animes[j].title)

\* C2: a rejected operation changes nothing: add of a record whose title an existing
\* record has (letter case aside), and deleteByTitle of a title no record has, return
\* failure, leave the Store as it was and do not save (the file is as it was).
C2_RejectedChangesNothing ==
    /\ (last.op = "add" /\ TitleTaken(last.pre, last.arg.title))
           => /\ last.ret = "false"
              /\ animes = last.pre
              /\ ~last.saved
              /\ file = last.preFile
    /\ (last.op = "delete" /\ ~TitleTaken(last.pre, last.arg.title))
           => /\ last.ret = "false"
              /\ animes = last.pre
              /\ ~last.saved
              /\ file = last.preFile

\* an add was rejected for a title that differs from the existing one in letter case
C2_Witness ==
    /\ last.op = "add"
    /\ last.ret = "false"
    /\ \E i \in 1..Len(animes) :
           /\ lower(animes[i].title) = lower(last.arg.title)
           /\ animes[i].title # last.arg.title

\* C3 as amended: an add(r) that succeeds, followed by deleteByTitle(t) with t the
\* title of r in any letter case, returns the Store to the content set it had before
\* the add.
C3_AddThenDelete ==
    [][ ( /\ last.op = "add"
          /\ last.ret = "true"
          /\ last'.op = "delete"
          /\ lower(last'.arg.title) = lower(last.arg.title) )
        => Records(animes') = Records(last.pre) ]_vars

\* a delete, by a title in another letter case, took out the record the add before it put in
C3_Witness ==
    /\ last.op = "delete"
    /\ last.afterAdd
    /\ last.ret = "true"
    /\ Len(last.pre) > 1
    /\ last.pre = Append(animes, last.pre[Len(last.pre)])
    /\ lower(last.pre[Len(last.pre)].title) = lower(last.arg.title)
    /\ last.pre[Len(last.pre)].title # last.arg.title

\* C3 as claimed: every add(r), accepted or rejected, followed by deleteByTitle(t) with
\* t the title of r in any letter case, returns the Store to the content set it had
\* before the add.
C3_Original ==
    [][ ( /\ writable
          /\ last.op = "add"
          /\ last'.op = "delete"
          /\ lower(last'.arg.title) = lower(last.arg.title) )
        => Records(animes') = Records(last.pre) ]_vars

C5_RoundTrip ==
    [][ ( /\ onlyAdds
          /\ last.op = "save"
          /\ writable
          /\ last'.op = "load" )
        => /\ last'.ret = "none"
           /\ animes' = animes ]_vars

\* C6: a load() of a file that is there but cannot be read or parsed warns, ends with
\* an empty Store and (its write not failing) leaves the file holding an empty array;
\* a load() with no file there ends with an empty Store and a file holding an empty array.
C6_CorruptResets ==
    /\ ( /\ last.op = "load"
         /\ last.preFile.kind \in {"unreadable", "undecodable", "badjson"}
         /\ writable )
       => /\ last.ret = "none"
          /\ MsgCorrupted \in last.msgs
          /\ animes = << >>
          /\ file = EmptyArray
    /\ ( /\ last.op = "load"
         /\ last.preFile.kind = "absent"
         /\ writable )
       => /\ last.ret = "none"
          /\ animes = << >>
          /\ file = EmptyArray

Constructed == made.op \in {"Anime", "from_dict"}

\* the title, year, status and rating Anime.__init__ was given
GivenTitle  == Get(made.d, "title", PyStr(<< >>))
GivenRating == Get(made.d, "rating", PyNone)

\* C7: construction never fails, called directly or by load() for an entry of the file:
\* for any title text and any year, status and rating given, missing or invalid, it
\* returns a record and raises nothing.
C7_ConstructionNeverFails ==
    (Constructed /\ GivenTitle.t = "str") => made.out.exc = ""

\* v is a number from 0 to 5, given as an int or as text of ASCII digits only
RatingInDomain(v) ==
    \/ v.t = "int" /\ v.n \in 0..5
    \/ /\ v.t = "str"
       /\ Len(v.s) > 0
       /\ \A i \in 1..Len(v.s) : IsAsciiDigit(v.s[i])
       /\ DigitsVal(v.s) \in 0..5

\* C8 as amended: every record construction returns has a rating that is absent or an
\* integer in 0..5, and a year that is absent or an integer (of any sign); a rating
\* given outside 0..5, or not as a pure digit sequence (a negative number too), gives
\* an absent rating.
C8_Domains ==
    (Constructed /\ made.out.exc = "")
    => /\ \/ made.out.r.rating = PyNone
          \/ made.out.r.rating.t = "int" /\ made.out.r.rating.n \in 0..5
       /\ \/ made.out.r.year = PyNone
          \/ made.out.r.year.t = "int" /\ made.out.r.year.n \in Int
       /\ ~RatingInDomain(GivenRating) => made.out.r.rating = PyNone

\* a record was made from the rating "-3" and a negative year
C8_Witness ==
    /\ made.op = "Anime"
    /\ made.out.exc = ""
    /\ made.d.rating = PyStr(<<"-", "3">>)
    /\ made.out.r.rating = PyNone
    /\ made.out.r.year.t = "int"
    /\ made.out.r.year.n < 0

\* C8 as claimed: every record construction returns has a rating that is absent or an
\* integer in 0..5, and a year that is absent or a non-negative integer.
C8_Original ==
    (Constructed /\ made.out.exc = "")
    => /\ \/ made.out.r.rating = PyNone
          \/ made.out.r.rating.t = "int" /\ made.out.r.rating.n \in 0..5
       /\ \/ made.out.r.year = PyNone
          \/ made.out.r.year.t = "int" /\ made.out.r.year.n >= 0

\* the records of the Store are in the same domains (checked under Spec)
StoreDomains ==
    \A i \in 1..Len(animes) :
        /\ \/ animes[i].rating = PyNone
           \/ animes[i].rating.t = "int" /\ animes[i].rating.n \in 0..5
        /\ \/ animes[i].year = PyNone
           \/ animes[i].year.t = "int"

Rated4(a) == a.rating \in {PyInt(4), PyInt(5)}

\* a record rated 4 or 5 has a genre of the catalog that lists a title the store has not
HasCandidate(store) ==
    \E i \in 1..Len(store) :
        /\ Rated4(store[i])
        /\ \E g \in 1..Len(store[i].genres), c \in 1..Len(CATALOG) :
               /\ CATALOG[c].genre = store[i].genres[g]
               /\ \E t \in 1..Len(CATALOG[c].titles) :
                      ~TitleTaken(store, CATALOG[c].titles[t])

Within(kw, s) ==
    \E i \in 1..(Len(s) + 1), j \in 0..Len(s) : SubSeq(lower(s), i, j) = lower(strip(kw))

\* the records of the store, in its order, that have kw in the title or in a genre
Hits(store, kw) ==
    SelectSeq(store, LAMBDA a : \/ Within(kw, a.title)
                                \/ \E g \in 1..Len(a.genres) : Within(kw, a.genres[g]))

\* C10: search(keyword) returns, in Store order, exactly the records whose title or a
\* genre holds the trimmed keyword, letter case aside; for an empty or all-blank keyword
\* it returns every record; it leaves the Store as it was, and a later add or
\* deleteByTitle does not change a list it returned.
C10_Search ==
    [][ /\ last'.op = "search"
            => /\ found' = Hits(animes, last'.arg.title)
               /\ (\A i \in 1..Len(last'.arg.title) : IsSpace(last'.arg.title[i]))
                      => found' = animes
               /\ animes' = animes
               /\ file' = file
        /\ last'.op \in {"add", "delete"} => found' = found ]_vars

\* a search found a record by a genre alone; that record was deleted since and
\* another added, and the list the caller holds still has it
C10_Witness ==
    /\ last.op = "add"
    /\ last.ret = "true"
    /\ Len(found) > 0
    /\ \E i \in 1..Len(found) :
           /\ ~contains(lower(found[i].title), <<"a", "n">>)
           /\ \E g \in 1..Len(found[i].genres) :
                  contains(lower(found[i].genres[g]), <<"a", "n">>)
    /\ \E i \in 1..Len(last.pre) :
           /\ ~contains(lower(last.pre[i].title), <<"a", "n">>)
           /\ \A g \in 1..Len(last.pre[i].genres) :
                  ~contains(lower(last.pre[i].genres[g]), <<"a", "n">>)
    /\ \E i \in 1..Len(found) : \A j \in 1..Len(last.pre) : last.pre[j] # found[i]

=============================================================================
